---- MODULE Spec2Model ----
(***************************************************************************)
(* Scoring engine of the APT variant validation scripts:                   *)
(*   score_apt_variants_v2.py  ("V2": score_logical_coherence,              *)
(*       score_operational_realism, determine_same_objective,              *)
(*       score_all_variants)                                               *)
(*   evaluate_apt_variants.py  ("V1": evaluate_logical_coherence,          *)
(*       evaluate_operational_realism, evaluate_same_objective,            *)
(*       evaluate_candidates)                                              *)
(*                                                                         *)
(* A sequence field of a row is either missing (NaN) or a string.  A       *)
(* string is modelled as the sequence of its lexemes: each lexeme is       *)
(* either a maximal match of the pattern T\d{4}(?:\.\d{3})? (a technique   *)
(* identifier with its base code and optional sub-technique suffix) or a   *)
(* piece of text the pattern does not match.                               *)
(***************************************************************************)
EXTENDS Integers, Sequences, FiniteSets, TLC

VARIABLES pc, sequence, seed_seq, apt_group, result, raised, row, df, slot

vars == <<pc, sequence, seed_seq, apt_group, result, raised, row, df, slot>>

(***************************************************************************)
(* Static tables.  A Python dict literal that lists a key twice keeps the  *)
(* last value; the tables below are the dicts as Python builds them.       *)
(***************************************************************************)
\* score_apt_variants_v2.py: TACTIC_ORDER (1-based kill-chain positions)
TACTIC_ORDER ==
  ("reconnaissance" :> 1 @@
   "resource-development" :> 2 @@
   "initial-access" :> 3 @@
   "execution" :> 4 @@
   "persistence" :> 5 @@
   "privilege-escalation" :> 6 @@
   "defense-evasion" :> 7 @@
   "credential-access" :> 8 @@
   "discovery" :> 9 @@
   "lateral-movement" :> 10 @@
   "collection" :> 11 @@
   "command-and-control" :> 12 @@
   "exfiltration" :> 13 @@
   "impact" :> 14)

\* evaluate_apt_variants.py: TACTIC_ORDER (0-based kill-chain positions)
TACTIC_ORDER_V1 ==
  ("reconnaissance" :> 0 @@
   "resource-development" :> 1 @@
   "initial-access" :> 2 @@
   "execution" :> 3 @@
   "persistence" :> 4 @@
   "privilege-escalation" :> 5 @@
   "defense-evasion" :> 6 @@
   "credential-access" :> 7 @@
   "discovery" :> 8 @@
   "lateral-movement" :> 9 @@
   "collection" :> 10 @@
   "command-and-control" :> 11 @@
   "exfiltration" :> 12 @@
   "impact" :> 13)

\* score_apt_variants_v2.py: TECHNIQUE_TO_TACTIC
TECHNIQUE_TO_TACTIC ==
  [T1595 |-> "reconnaissance", T1594 |-> "reconnaissance", T1593 |-> "reconnaissance",
    T1592 |-> "reconnaissance", T1590 |-> "reconnaissance", T1591 |-> "reconnaissance",
    T1589 |-> "reconnaissance", T1598 |-> "reconnaissance", T1583 |-> "resource-development",
    T1586 |-> "resource-development", T1584 |-> "resource-development", T1587 |-> "resource-development",
    T1585 |-> "resource-development", T1588 |-> "resource-development", T1189 |-> "initial-access",
    T1190 |-> "initial-access", T1133 |-> "persistence", T1200 |-> "initial-access",
    T1566 |-> "initial-access", T1091 |-> "lateral-movement", T1195 |-> "initial-access",
    T1199 |-> "initial-access", T1078 |-> "defense-evasion", T1059 |-> "execution",
    T1106 |-> "execution", T1203 |-> "execution", T1559 |-> "execution",
    T1569 |-> "execution", T1204 |-> "execution", T1047 |-> "execution",
    T1053 |-> "privilege-escalation", T1072 |-> "lateral-movement", T1129 |-> "execution",
    T1098 |-> "persistence", T1197 |-> "defense-evasion", T1547 |-> "privilege-escalation",
    T1037 |-> "privilege-escalation", T1136 |-> "persistence", T1543 |-> "privilege-escalation",
    T1505 |-> "persistence", T1542 |-> "defense-evasion", T1554 |-> "persistence",
    T1574 |-> "defense-evasion", T1134 |-> "defense-evasion", T1548 |-> "defense-evasion",
    T1068 |-> "privilege-escalation", T1055 |-> "defense-evasion", T1088 |-> "privilege-escalation",
    T1140 |-> "defense-evasion", T1480 |-> "defense-evasion", T1211 |-> "defense-evasion",
    T1222 |-> "defense-evasion", T1564 |-> "defense-evasion", T1562 |-> "defense-evasion",
    T1070 |-> "defense-evasion", T1202 |-> "defense-evasion", T1036 |-> "defense-evasion",
    T1556 |-> "credential-access", T1578 |-> "defense-evasion", T1112 |-> "defense-evasion",
    T1027 |-> "defense-evasion", T1647 |-> "defense-evasion", T1620 |-> "defense-evasion",
    T1207 |-> "defense-evasion", T1218 |-> "defense-evasion", T1216 |-> "defense-evasion",
    T1553 |-> "defense-evasion", T1221 |-> "defense-evasion", T1205 |-> "command-and-control",
    T1127 |-> "defense-evasion", T1535 |-> "defense-evasion", T1497 |-> "discovery",
    T1600 |-> "defense-evasion", T1601 |-> "defense-evasion", T1550 |-> "lateral-movement",
    T1110 |-> "credential-access", T1555 |-> "credential-access", T1212 |-> "credential-access",
    T1187 |-> "credential-access", T1606 |-> "credential-access", T1056 |-> "credential-access",
    T1111 |-> "credential-access", T1621 |-> "credential-access", T1040 |-> "discovery",
    T1003 |-> "credential-access", T1528 |-> "credential-access", T1558 |-> "credential-access",
    T1539 |-> "credential-access", T1087 |-> "discovery", T1010 |-> "discovery",
    T1217 |-> "discovery", T1580 |-> "discovery", T1538 |-> "discovery",
    T1526 |-> "discovery", T1482 |-> "discovery", T1083 |-> "discovery",
    T1615 |-> "discovery", T1046 |-> "discovery", T1135 |-> "discovery",
    T1201 |-> "discovery", T1120 |-> "discovery", T1069 |-> "discovery",
    T1057 |-> "discovery", T1012 |-> "discovery", T1018 |-> "discovery",
    T1518 |-> "discovery", T1082 |-> "discovery", T1614 |-> "discovery",
    T1016 |-> "discovery", T1049 |-> "discovery", T1033 |-> "discovery",
    T1007 |-> "discovery", T1124 |-> "discovery", T1622 |-> "discovery",
    T1210 |-> "lateral-movement", T1534 |-> "lateral-movement", T1570 |-> "lateral-movement",
    T1563 |-> "lateral-movement", T1021 |-> "lateral-movement", T1080 |-> "lateral-movement",
    T1077 |-> "lateral-movement", T1560 |-> "collection", T1123 |-> "collection",
    T1119 |-> "collection", T1185 |-> "collection", T1115 |-> "collection",
    T1530 |-> "collection", T1602 |-> "collection", T1213 |-> "collection",
    T1005 |-> "collection", T1039 |-> "collection", T1025 |-> "collection",
    T1074 |-> "collection", T1114 |-> "collection", T1113 |-> "collection",
    T1125 |-> "collection", T1071 |-> "command-and-control", T1092 |-> "command-and-control",
    T1132 |-> "command-and-control", T1001 |-> "command-and-control", T1568 |-> "command-and-control",
    T1573 |-> "command-and-control", T1008 |-> "command-and-control", T1105 |-> "command-and-control",
    T1104 |-> "command-and-control", T1095 |-> "command-and-control", T1571 |-> "command-and-control",
    T1572 |-> "command-and-control", T1090 |-> "command-and-control", T1219 |-> "command-and-control",
    T1102 |-> "command-and-control", T1043 |-> "command-and-control", T1020 |-> "exfiltration",
    T1030 |-> "exfiltration", T1048 |-> "exfiltration", T1041 |-> "exfiltration",
    T1011 |-> "exfiltration", T1052 |-> "exfiltration", T1567 |-> "exfiltration",
    T1029 |-> "exfiltration", T1537 |-> "exfiltration", T1531 |-> "impact",
    T1485 |-> "impact", T1486 |-> "impact", T1565 |-> "impact",
    T1491 |-> "impact", T1561 |-> "impact", T1499 |-> "impact",
    T1495 |-> "impact", T1490 |-> "impact", T1498 |-> "impact",
    T1496 |-> "impact", T1489 |-> "impact", T1529 |-> "impact",
    T1657 |-> "impact"]

\* evaluate_apt_variants.py: TECHNIQUE_TACTIC_MAP
TECHNIQUE_TACTIC_MAP ==
  [T1595 |-> "reconnaissance", T1594 |-> "reconnaissance", T1593 |-> "reconnaissance",
    T1592 |-> "reconnaissance", T1590 |-> "reconnaissance", T1591 |-> "reconnaissance",
    T1589 |-> "reconnaissance", T1598 |-> "reconnaissance", T1583 |-> "resource-development",
    T1586 |-> "resource-development", T1584 |-> "resource-development", T1587 |-> "resource-development",
    T1585 |-> "resource-development", T1588 |-> "resource-development", T1189 |-> "initial-access",
    T1190 |-> "initial-access", T1133 |-> "persistence", T1200 |-> "initial-access",
    T1566 |-> "initial-access", T1091 |-> "lateral-movement", T1195 |-> "initial-access",
    T1199 |-> "initial-access", T1078 |-> "defense-evasion", T1059 |-> "execution",
    T1106 |-> "execution", T1203 |-> "execution", T1559 |-> "execution",
    T1569 |-> "execution", T1204 |-> "execution", T1047 |-> "execution",
    T1053 |-> "privilege-escalation", T1072 |-> "lateral-movement", T1098 |-> "persistence",
    T1197 |-> "defense-evasion", T1547 |-> "privilege-escalation", T1037 |-> "privilege-escalation",
    T1136 |-> "persistence", T1543 |-> "privilege-escalation", T1505 |-> "persistence",
    T1542 |-> "defense-evasion", T1554 |-> "persistence", T1134 |-> "defense-evasion",
    T1548 |-> "defense-evasion", T1068 |-> "privilege-escalation", T1574 |-> "defense-evasion",
    T1055 |-> "defense-evasion", T1140 |-> "defense-evasion", T1480 |-> "defense-evasion",
    T1211 |-> "defense-evasion", T1222 |-> "defense-evasion", T1564 |-> "defense-evasion",
    T1562 |-> "defense-evasion", T1070 |-> "defense-evasion", T1202 |-> "defense-evasion",
    T1036 |-> "defense-evasion", T1556 |-> "credential-access", T1578 |-> "defense-evasion",
    T1112 |-> "defense-evasion", T1027 |-> "defense-evasion", T1647 |-> "defense-evasion",
    T1620 |-> "defense-evasion", T1207 |-> "defense-evasion", T1218 |-> "defense-evasion",
    T1216 |-> "defense-evasion", T1553 |-> "defense-evasion", T1221 |-> "defense-evasion",
    T1205 |-> "command-and-control", T1127 |-> "defense-evasion", T1535 |-> "defense-evasion",
    T1497 |-> "discovery", T1600 |-> "defense-evasion", T1601 |-> "defense-evasion",
    T1110 |-> "credential-access", T1555 |-> "credential-access", T1212 |-> "credential-access",
    T1187 |-> "credential-access", T1606 |-> "credential-access", T1056 |-> "credential-access",
    T1111 |-> "credential-access", T1621 |-> "credential-access", T1040 |-> "discovery",
    T1003 |-> "credential-access", T1528 |-> "credential-access", T1558 |-> "credential-access",
    T1539 |-> "credential-access", T1087 |-> "discovery", T1010 |-> "discovery",
    T1217 |-> "discovery", T1580 |-> "discovery", T1538 |-> "discovery",
    T1526 |-> "discovery", T1482 |-> "discovery", T1083 |-> "discovery",
    T1615 |-> "discovery", T1046 |-> "discovery", T1135 |-> "discovery",
    T1201 |-> "discovery", T1120 |-> "discovery", T1069 |-> "discovery",
    T1057 |-> "discovery", T1012 |-> "discovery", T1018 |-> "discovery",
    T1518 |-> "discovery", T1082 |-> "discovery", T1614 |-> "discovery",
    T1016 |-> "discovery", T1049 |-> "discovery", T1033 |-> "discovery",
    T1007 |-> "discovery", T1124 |-> "discovery", T1622 |-> "discovery",
    T1210 |-> "lateral-movement", T1534 |-> "lateral-movement", T1570 |-> "lateral-movement",
    T1563 |-> "lateral-movement", T1021 |-> "lateral-movement", T1080 |-> "lateral-movement",
    T1550 |-> "lateral-movement", T1560 |-> "collection", T1123 |-> "collection",
    T1119 |-> "collection", T1185 |-> "collection", T1115 |-> "collection",
    T1530 |-> "collection", T1602 |-> "collection", T1213 |-> "collection",
    T1005 |-> "collection", T1039 |-> "collection", T1025 |-> "collection",
    T1074 |-> "collection", T1114 |-> "collection", T1113 |-> "collection",
    T1125 |-> "collection", T1071 |-> "command-and-control", T1092 |-> "command-and-control",
    T1132 |-> "command-and-control", T1001 |-> "command-and-control", T1568 |-> "command-and-control",
    T1573 |-> "command-and-control", T1008 |-> "command-and-control", T1105 |-> "command-and-control",
    T1104 |-> "command-and-control", T1095 |-> "command-and-control", T1571 |-> "command-and-control",
    T1572 |-> "command-and-control", T1090 |-> "command-and-control", T1219 |-> "command-and-control",
    T1102 |-> "command-and-control", T1020 |-> "exfiltration", T1030 |-> "exfiltration",
    T1048 |-> "exfiltration", T1041 |-> "exfiltration", T1011 |-> "exfiltration",
    T1052 |-> "exfiltration", T1567 |-> "exfiltration", T1029 |-> "exfiltration",
    T1537 |-> "exfiltration", T1531 |-> "impact", T1485 |-> "impact",
    T1486 |-> "impact", T1565 |-> "impact", T1491 |-> "impact",
    T1561 |-> "impact", T1499 |-> "impact", T1495 |-> "impact",
    T1490 |-> "impact", T1498 |-> "impact", T1496 |-> "impact",
    T1489 |-> "impact", T1529 |-> "impact"]

\* score_apt_variants_v2.py: APT_OBJECTIVES
APT_OBJECTIVES ==
  [APT41 |-> {"espionage", "financial-gain"},
    Turla |-> {"espionage"},
    MuddyWater |-> {"espionage", "disruption"},
    APT39 |-> {"espionage", "credential-harvesting"},
    Lazarus_Group |-> {"financial-gain", "disruption", "ransomware"},
    APT28 |-> {"espionage"},
    Cobalt_Group |-> {"financial-theft"},
    APT31 |-> {"espionage"},
    APT37 |-> {"espionage"},
    APT29 |-> {"espionage"},
    APT38 |-> {"financial-theft"},
    BRONZEBUTLER |-> {"espionage"},
    Kimsuky |-> {"espionage", "credential-harvesting"},
    Dragonfly |-> {"espionage", "ics-targeting"},
    Sandworm_Team |-> {"disruption", "ransomware"},
    Aquatic_Panda |-> {"espionage"},
    Wizard_Spider |-> {"ransomware"},
    FIN7 |-> {"financial-theft"},
    APT3 |-> {"espionage"}]

\* evaluate_apt_variants.py: APT_OBJECTIVES
APT_OBJECTIVES_V1 ==
  [APT41 |-> {"espionage", "financial-gain"},
    Turla |-> {"espionage"},
    MuddyWater |-> {"espionage", "disruption", "ransomware"},
    APT39 |-> {"espionage", "credential-theft"},
    Lazarus_Group |-> {"financial-gain", "disruption", "ransomware"},
    APT28 |-> {"espionage", "information-warfare"},
    Cobalt_Group |-> {"financial-theft"},
    APT31 |-> {"espionage"},
    APT37 |-> {"espionage"},
    APT29 |-> {"espionage"},
    APT38 |-> {"financial-theft"},
    BRONZEBUTLER |-> {"espionage"},
    Kimsuky |-> {"espionage", "credential-harvesting"},
    Dragonfly |-> {"espionage", "ics-targeting"},
    Sandworm_Team |-> {"disruption", "ransomware", "ics-disruption"},
    Aquatic_Panda |-> {"espionage", "supply-chain"},
    Wizard_Spider |-> {"ransomware"},
    FIN7 |-> {"financial-theft"},
    APT3 |-> {"espionage"}]

(***************************************************************************)
(* Sequence fields and their lexemes.                                      *)
(***************************************************************************)
\* a lexeme the pattern matches: "T1059" or "T1059.001"
Tech(b) == [match |-> TRUE, base |-> b, sub |-> ""]
SubTech(b, s) == [match |-> TRUE, base |-> b, sub |-> s]
\* a lexeme the pattern does not match (prose, punctuation, "t1059", "T12")
Word(w) == [match |-> FALSE, base |-> w, sub |-> ""]

\* a missing cell (pandas NaN) and a string cell
NaN == [isna |-> TRUE, text |-> <<>>]
Str(lexemes) == [isna |-> FALSE, text |-> lexemes]

Min(a, b) == IF a < b THEN a ELSE b
Max(a, b) == IF a > b THEN a ELSE b

\* a returned value, and an exception escaping the function
Return(v) == [exc |-> "", val |-> v]
Raise(e) == [exc |-> e, val |-> 0]

(***************************************************************************)
(* Technique Parser and Tactic Resolver.                                   *)
(***************************************************************************)
\* extract_techniques (the same function in both scripts)
extract_techniques(field) ==
  IF field.isna \/ field.text = <<>>
  THEN <<>>
  ELSE SelectSeq(field.text, LAMBDA x : x.match)

\* t.split('.')[0]
base_tech(t) == t.base

\* the keys of the tables
TechniqueKeys == DOMAIN TECHNIQUE_TO_TACTIC
TechniqueKeysV1 == DOMAIN TECHNIQUE_TACTIC_MAP
TacticNames == DOMAIN TACTIC_ORDER
TacticNamesV1 == DOMAIN TACTIC_ORDER_V1
AptKeys == DOMAIN APT_OBJECTIVES
AptKeysV1 == DOMAIN APT_OBJECTIVES_V1
\* mutation: an identifier outside the table resolves to a tactic
tactic_of_default_discovery(t) ==
  IF base_tech(t) \in TechniqueKeys
  THEN TECHNIQUE_TO_TACTIC[base_tech(t)]
  ELSE "discovery"

\* V2: TECHNIQUE_TO_TACTIC.get(base_tech, 'unknown')
tactic_of(t) ==
  IF base_tech(t) \in TechniqueKeys
  THEN TECHNIQUE_TO_TACTIC[base_tech(t)]
  ELSE "unknown"

\* V2: get_tactic_sequence keeps the resolved tactics only
get_tactic_sequence(techniques) ==
  SelectSeq([i \in 1..Len(techniques) |-> tactic_of(techniques[i])],
            LAMBDA t : t # "unknown")

\* V1: get_tactic_for_technique
get_tactic_for_technique(technique) ==
  IF base_tech(technique) \in TechniqueKeysV1
  THEN TECHNIQUE_TACTIC_MAP[base_tech(technique)]
  ELSE "unknown"

\* mutant: the final clamp is left out
clamp_none(score) == score

\* max(1, min(10, score))
clamp(score) == Max(1, Min(10, score))

(***************************************************************************)
(* V2 Coherence Scorer: score_logical_coherence.                           *)
(***************************************************************************)
\* mutant: the empty technique list is not taken as too short
too_short_nonempty(techniques) == techniques # <<>> /\ Len(techniques) < 3

\* mutant: only fewer than 2 techniques are too short
too_short_lt2(techniques) == techniques = <<>> \/ Len(techniques) < 2

\* `not techniques or len(techniques) < 3`
too_short(techniques) == techniques = <<>> \/ Len(techniques) < 3

\* mutant: the comparison is reversed, forward steps are counted
count_violations_flipped(tactic_nums) ==
  Cardinality({i \in 1..(Len(tactic_nums) - 1) :
                 /\ tactic_nums[i] < tactic_nums[i + 1]
                 /\ tactic_nums[i + 1] - tactic_nums[i] > 2})

\* mutant: the tolerated backward step is 3 positions instead of 2
count_violations_gt3(tactic_nums) ==
  Cardinality({i \in 1..(Len(tactic_nums) - 1) :
                 /\ tactic_nums[i] > tactic_nums[i + 1]
                 /\ tactic_nums[i] - tactic_nums[i + 1] > 3})

\* the loop over consecutive pairs: a backward step of more than 2 positions
\* is a violation
count_violations(tactic_nums) ==
  Cardinality({i \in 1..(Len(tactic_nums) - 1) :
                 /\ tactic_nums[i] > tactic_nums[i + 1]
                 /\ tactic_nums[i] - tactic_nums[i + 1] > 2})

\* a backward step of more than 5 positions is a major violation
count_major_violations(tactic_nums) ==
  Cardinality({i \in 1..(Len(tactic_nums) - 1) :
                 /\ tactic_nums[i] > tactic_nums[i + 1]
                 /\ tactic_nums[i] - tactic_nums[i + 1] > 5})

\* any(t in ['initial-access', 'reconnaissance'] for t in tactics[:7])
has_initial_access(tactics) ==
  \E i \in 1..Min(7, Len(tactics)) : tactics[i] \in {"initial-access", "reconnaissance"}

\* mutant: the guard on a single resolved tactic is missing
single_tactic_never(total_transitions) == FALSE

\* `if total_transitions == 0: return 7`
single_tactic(total_transitions) == total_transitions = 0

\* mutation: a single major violation no longer fixes the band
violation_band_no_single_major(violations, major_violations, total_transitions) ==
  IF total_transitions = 0 THEN Raise("ZeroDivisionError")
  ELSE IF major_violations >= 3 THEN Return(2)
  ELSE IF major_violations = 2 THEN Return(3)
  ELSE IF violations = 0 THEN Return(10)
  ELSE IF 100 * violations <= 5 * total_transitions THEN Return(9)
  ELSE IF 100 * violations <= 15 * total_transitions THEN Return(8)
  ELSE IF 100 * violations <= 25 * total_transitions THEN Return(7)
  ELSE IF 100 * violations <= 35 * total_transitions THEN Return(6)
  ELSE IF 100 * violations <= 50 * total_transitions THEN Return(5)
  ELSE Return(4)

\* violation_ratio = violations / total_transitions and the band table.
\* ratio <= p/100 is decided as 100 * violations <= p * total_transitions
\* (the two agree on the floats Python computes for every length below 80).
violation_band(violations, major_violations, total_transitions) ==
  IF total_transitions = 0 THEN Raise("ZeroDivisionError")
  ELSE IF major_violations >= 3 THEN Return(2)
  ELSE IF major_violations = 2 THEN Return(3)
  ELSE IF major_violations = 1 THEN Return(4)
  ELSE IF violations = 0 THEN Return(10)
  ELSE IF 100 * violations <= 5 * total_transitions THEN Return(9)
  ELSE IF 100 * violations <= 15 * total_transitions THEN Return(8)
  ELSE IF 100 * violations <= 25 * total_transitions THEN Return(7)
  ELSE IF 100 * violations <= 35 * total_transitions THEN Return(6)
  ELSE IF 100 * violations <= 50 * total_transitions THEN Return(5)
  ELSE Return(4)

\* bonus for good structure, then penalty for a missing early phase
bonus_and_penalty(score, techniques, tactics) ==
  LET has_execution == \E i \in 1..Len(tactics) : tactics[i] = "execution"
      has_c2_or_persistence ==
        \E i \in 1..Len(tactics) : tactics[i] \in {"command-and-control", "persistence"}
      s1 == IF has_initial_access(tactics) /\ has_execution /\ has_c2_or_persistence
            THEN Min(score + 1, 10) ELSE score
      s2 == IF ~has_initial_access(tactics) /\ Len(techniques) > 6
            THEN Max(s1 - 2, 1) ELSE s1
  IN  s2

score_logical_coherence(seq) ==
  LET techniques == extract_techniques(seq)
      tactics == get_tactic_sequence(techniques)
  IN  IF too_short(techniques) THEN Return(5)
      ELSE IF tactics = <<>> THEN Return(4)
      ELSE IF \E i \in 1..Len(tactics) : tactics[i] \notin TacticNames
           THEN Raise("KeyError")
      ELSE
        LET tactic_nums == [i \in 1..Len(tactics) |-> TACTIC_ORDER[tactics[i]]]
            violations == count_violations(tactic_nums)
            major_violations == count_major_violations(tactic_nums)
            total_transitions == Len(tactic_nums) - 1
            band == violation_band(violations, major_violations, total_transitions)
        IN  IF single_tactic(total_transitions) THEN Return(7)
            ELSE IF band.exc # "" THEN band
            ELSE Return(clamp(bonus_and_penalty(band.val, techniques, tactics)))

(***************************************************************************)
(* V1 Coherence Scorer: evaluate_logical_coherence.                        *)
(***************************************************************************)
\* the loop over consecutive pairs: a backward step of more than 3 positions
\* counts 2, any other backward step counts 1
weighted_violations(tactic_order_values) ==
  LET step(i) == tactic_order_values[i] - tactic_order_values[i + 1]
      idx == 1..(Len(tactic_order_values) - 1)
  IN  2 * Cardinality({i \in idx : step(i) > 3})
      + Cardinality({i \in idx : step(i) > 0 /\ step(i) <= 3})

\* violations <= max_violations * p/100 is decided as
\* 100 * violations <= p * max_violations (the two agree on Python's floats
\* for every length below 80)
violation_score(violations, max_violations) ==
  IF violations = 0 THEN 10
  ELSE IF 100 * violations <= 10 * max_violations THEN 9
  ELSE IF 100 * violations <= 20 * max_violations THEN 8
  ELSE IF 100 * violations <= 30 * max_violations THEN 7
  ELSE IF 100 * violations <= 40 * max_violations THEN 6
  ELSE IF 100 * violations <= 50 * max_violations THEN 5
  ELSE IF 100 * violations <= 70 * max_violations THEN 4
  ELSE IF 100 * violations <= 85 * max_violations THEN 3
  ELSE 2

evaluate_logical_coherence(seq) ==
  LET techniques == extract_techniques(seq)
      tactics == [i \in 1..Len(techniques) |-> get_tactic_for_technique(techniques[i])]
      known == SelectSeq(tactics, LAMBDA t : t # "unknown")
      \* TACTIC_ORDER.get(t, -1)
      tactic_order_values ==
        [i \in 1..Len(known) |->
           IF known[i] \in TacticNamesV1 THEN TACTIC_ORDER_V1[known[i]] ELSE -1]
  IN  IF techniques = <<>> THEN 1
      ELSE IF tactic_order_values = <<>> THEN 5
      ELSE clamp(violation_score(weighted_violations(tactic_order_values),
                                 Len(tactic_order_values)))

(***************************************************************************)
(* V2 Realism Scorer: score_operational_realism.                           *)
(***************************************************************************)
\* the sequence-length check
length_adjustment(seq_len) ==
  IF seq_len < 5 THEN -2
  ELSE IF seq_len > 50 THEN -2
  ELSE IF 8 <= seq_len /\ seq_len <= 30 THEN 1
  ELSE 0

\* sum([has_initial, has_execution, has_c2 or has_persistence])
essential_count(tactic_set) ==
  (IF tactic_set \cap {"initial-access", "reconnaissance"} # {} THEN 1 ELSE 0)
  + (IF "execution" \in tactic_set THEN 1 ELSE 0)
  + (IF tactic_set \cap {"command-and-control", "persistence"} # {} THEN 1 ELSE 0)

\* mutant: the adjustment for no essential group has the wrong sign
essential_adjustment_slip(count) ==
  IF count >= 3 THEN 1
  ELSE IF count = 1 THEN -1
  ELSE IF count = 0 THEN 2
  ELSE 0

essential_adjustment(count) ==
  IF count >= 3 THEN 1
  ELSE IF count = 1 THEN -1
  ELSE IF count = 0 THEN -2
  ELSE 0

\* mutant: the table is not consulted, every APT gets the default
known_objectives_default(apt) == {"espionage"}

\* APT_OBJECTIVES.get(apt_group, ['espionage'])
known_objectives(apt) ==
  IF apt \in AptKeys THEN APT_OBJECTIVES[apt] ELSE {"espionage"}

\* the objective-alignment checks against the APT's known objectives
objective_alignment(tactic_set, apt_objectives) ==
  LET has_exfil == "exfiltration" \in tactic_set
      has_collection == "collection" \in tactic_set
      has_impact == "impact" \in tactic_set
      has_cred_access == "credential-access" \in tactic_set
  IN  (IF "espionage" \in apt_objectives /\ (has_collection \/ has_exfil) THEN 1 ELSE 0)
      + (IF "espionage" \in apt_objectives /\ has_impact /\ ~(has_collection \/ has_exfil)
         THEN -1 ELSE 0)
      + (IF apt_objectives \cap {"financial-theft", "financial-gain", "ransomware"} # {}
            /\ (has_cred_access \/ has_impact)
         THEN 1 ELSE 0)
      + (IF ("disruption" \in apt_objectives \/ "ransomware" \in apt_objectives)
            /\ has_impact
         THEN 1 ELSE 0)

Range(s) == {s[i] : i \in 1..Len(s)}

score_operational_realism(seq, apt) ==
  LET techniques == extract_techniques(seq)
      tactic_set == Range(get_tactic_sequence(techniques))
  IN  IF techniques = <<>> THEN 1
      ELSE clamp(8 + length_adjustment(Len(techniques))
                   + essential_adjustment(essential_count(tactic_set))
                   + objective_alignment(tactic_set, known_objectives(apt)))

(***************************************************************************)
(* V1 Realism Scorer: evaluate_operational_realism.                        *)
(***************************************************************************)
length_adjustment_v1(seq_length) ==
  IF seq_length < 5 THEN -2
  ELSE IF seq_length > 40 THEN -2
  ELSE IF 8 <= seq_length /\ seq_length <= 25 THEN 1
  ELSE 0

\* the essential_present counter
essential_present(tactics) ==
  (IF "initial-access" \in tactics \/ "reconnaissance" \in tactics THEN 1 ELSE 0)
  + (IF "execution" \in tactics THEN 1 ELSE 0)
  + (IF "command-and-control" \in tactics \/ "persistence" \in tactics THEN 1 ELSE 0)

essential_adjustment_v1(present) ==
  IF present >= 2 THEN 1
  ELSE IF present = 1 THEN -1
  ELSE -2

\* impact without collection/exfiltration, unless the APT is a destructive one
unrealistic_pattern(tactics, apt_name) ==
  IF /\ "impact" \in tactics
     /\ "collection" \notin tactics
     /\ "exfiltration" \notin tactics
     /\ apt_name \notin {"Sandworm_Team", "Wizard_Spider", "Lazarus_Group"}
  THEN -1 ELSE 0

evaluate_operational_realism(seq, apt_name) ==
  LET techniques == extract_techniques(seq)
      tactics == {get_tactic_for_technique(techniques[i]) : i \in 1..Len(techniques)}
  IN  IF techniques = <<>> THEN 1
      ELSE clamp(7 + length_adjustment_v1(Len(techniques))
                   + essential_adjustment_v1(essential_present(tactics))
                   + unrealistic_pattern(tactics, apt_name))

(***************************************************************************)
(* V2 Objective Classifier: determine_same_objective.                      *)
(***************************************************************************)
\* mutant: exfiltration is not taken as a sign of espionage
infer_objectives_no_exfil(tactics) ==
  (IF "collection" \in tactics THEN {"espionage"} ELSE {})
  \cup (IF "impact" \in tactics THEN {"disruption"} ELSE {})
  \cup (IF "impact" \in tactics
           /\ ("credential-access" \in tactics \/ "lateral-movement" \in tactics)
        THEN {"ransomware"} ELSE {})
  \cup (IF "credential-access" \in tactics /\ "lateral-movement" \in tactics
        THEN {"financial-gain", "credential-harvesting"} ELSE {})

infer_objectives(tactics) ==
  (IF "exfiltration" \in tactics \/ "collection" \in tactics THEN {"espionage"} ELSE {})
  \cup (IF "impact" \in tactics THEN {"disruption"} ELSE {})
  \cup (IF "impact" \in tactics
           /\ ("credential-access" \in tactics \/ "lateral-movement" \in tactics)
        THEN {"ransomware"} ELSE {})
  \cup (IF "credential-access" \in tactics /\ "lateral-movement" \in tactics
        THEN {"financial-gain", "credential-harvesting"} ELSE {})

\* mutation: the fallback is espionage for every APT
objectives_or_known_espionage(obj, apt) == IF obj = {} THEN {"espionage"} ELSE obj

\* mutant: no fallback to the APT's known objectives
objectives_or_known_none(obj, apt) == obj

\* `if not obj: obj = set(APT_OBJECTIVES.get(apt_group, ['espionage']))`
objectives_or_known(obj, apt) == IF obj = {} THEN known_objectives(apt) ELSE obj

compatible ==
  { {"espionage", "credential-harvesting"},
    {"financial-gain", "credential-harvesting"},
    {"disruption", "ransomware"} }

\* mutant: only the missing candidate is rejected, not the empty string
candidate_missing_isna(field) == field.isna

\* `pd.isna(candidate_seq) or candidate_seq == ''`
candidate_missing(field) == field.isna \/ field.text = <<>>

\* mutation: only the seed falls back to the APT's known objectives
determine_same_objective_seed_fallback(seed, cand, apt) ==
  IF candidate_missing(cand) THEN "No"
  ELSE
    LET seed_tactics == Range(get_tactic_sequence(extract_techniques(seed)))
        cand_tactics == Range(get_tactic_sequence(extract_techniques(cand)))
        seed_obj == objectives_or_known(infer_objectives(seed_tactics), apt)
        cand_obj == infer_objectives(cand_tactics)
    IN  IF seed_obj \cap cand_obj # {} THEN "Yes"
        ELSE IF \E group \in compatible :
                  seed_obj \cap group # {} /\ cand_obj \cap group # {}
             THEN "Yes"
        ELSE "No"

determine_same_objective(seed, cand, apt) ==
  IF candidate_missing(cand) THEN "No"
  ELSE
    LET seed_tactics == Range(get_tactic_sequence(extract_techniques(seed)))
        cand_tactics == Range(get_tactic_sequence(extract_techniques(cand)))
        seed_obj == objectives_or_known(infer_objectives(seed_tactics), apt)
        cand_obj == objectives_or_known(infer_objectives(cand_tactics), apt)
    IN  IF seed_obj \cap cand_obj # {} THEN "Yes"
        ELSE IF \E group \in compatible :
                  seed_obj \cap group # {} /\ cand_obj \cap group # {}
             THEN "Yes"
        ELSE "No"

(***************************************************************************)
(* V1 Objective Classifier: evaluate_same_objective.                       *)
(***************************************************************************)
infer_objective_from_sequence(seq) ==
  LET techniques == extract_techniques(seq)
      tactic_set == {get_tactic_for_technique(techniques[i]) : i \in 1..Len(techniques)}
      objectives ==
        (IF "exfiltration" \in tactic_set \/ "collection" \in tactic_set
         THEN {"espionage"} ELSE {})
        \cup (IF "credential-access" \in tactic_set /\ "lateral-movement" \in tactic_set
              THEN {"financial-gain", "credential-theft"} ELSE {})
        \cup (IF "impact" \in tactic_set THEN {"disruption", "ransomware"} ELSE {})
        \cup (IF "credential-access" \in tactic_set
              THEN {"credential-harvesting", "credential-theft"} ELSE {})
  IN  IF objectives = {} THEN {"espionage"} ELSE objectives

known_objectives_v1(apt_name) ==
  IF apt_name \in AptKeysV1 THEN APT_OBJECTIVES_V1[apt_name] ELSE {"espionage"}

compatible_groups ==
  { {"espionage", "credential-theft", "credential-harvesting"},
    {"financial-gain", "financial-theft", "credential-theft"},
    {"disruption", "ransomware", "ics-disruption"} }

evaluate_same_objective(seed, cand, apt_name) ==
  IF candidate_missing(cand) THEN "No"
  ELSE
    LET seed_set == infer_objective_from_sequence(seed)
        candidate_set == infer_objective_from_sequence(cand)
        apt_set == known_objectives_v1(apt_name)
    IN  IF seed_set \cap candidate_set # {} THEN "Yes"
        ELSE IF seed_set \cap apt_set # {} /\ candidate_set \cap apt_set # {} THEN "Yes"
        ELSE IF \E group \in compatible_groups :
                  seed_set \cap group # {} /\ candidate_set \cap group # {}
             THEN "Yes"
        ELSE "No"

(***************************************************************************)
(* Bounded input domains.                                                  *)
(***************************************************************************)
MaxCore == 3
MaxPad == 7
MaxShortPad == 4
LongPad == 43
MaxRepeat == 3

SeqsUpTo(S, n) == UNION {[1..k -> S] : k \in 0..n}
Pad(x, n) == [i \in 1..n |-> x]

\* seq written n times over
RECURSIVE Repeat(_, _)
Repeat(seq, n) == IF n = 0 THEN <<>> ELSE seq \o Repeat(seq, n - 1)

\* the lexemes of order[k], k in S, in the order of `order`
RECURSIVE SubSeqOf(_, _, _)
SubSeqOf(order, S, k) ==
  IF k > Len(order) THEN <<>>
  ELSE (IF k \in S THEN <<order[k]>> ELSE <<>>) \o SubSeqOf(order, S, k + 1)

\* APT names: every name of the tables and one the tables do not know
AptNames == AptKeys \cup AptKeysV1 \cup {"Unknown_APT"}

\* Coherence inputs: initial-access, execution, privilege-escalation (T1547
\* resolves to it in both tables), command-and-control, impact, an
\* identifier outside the tables, and prose
LCLexemes ==
  { Tech("T1566"), Tech("T1059"), SubTech("T1547", "001"), Tech("T1071"),
    Tech("T1486"), Tech("T9999"), Word("then") }
LCPads == { Tech("T1059"), Tech("T9999") }
Scenarios ==
  { <<Tech("T1566"), Tech("T1059"), Tech("T1547"), Tech("T1071")>>,
    <<Tech("T1071"), Tech("T1566")>> }
\* every key of either table, three times over (bare, with a suffix, bare)
TableLexemes ==
  { <<Tech(b), SubTech(b, "001"), Tech(b)>> : b \in TechniqueKeys \cup TechniqueKeysV1 }
LCInputs ==
  {NaN}
  \cup {Str(Pad(p, n) \o c) : p \in LCPads, n \in 0..MaxPad, c \in SeqsUpTo(LCLexemes, MaxCore)}
  \cup {Str(Repeat(c, n)) : c \in SeqsUpTo(LCLexemes, MaxCore), n \in 2..MaxRepeat}
  \cup {Str(s) : s \in Scenarios \cup TableLexemes}

\* Realism inputs: a subset of one technique per tactic of interest, after a
\* run of discovery techniques that sets the length
ORLexemes ==
  << Tech("T1566"), Tech("T1059"), Tech("T1071"), Tech("T1560"),
     SubTech("T1041", "002"), Tech("T1486"), Tech("T1003"), Tech("T9999") >>
ORPadCounts == 0..MaxShortPad \cup {LongPad}
ORInputs ==
  {NaN, Str(<<>>), Str(<<Word("n/a")>>)}
  \cup {Str(Pad(Tech("T1082"), n) \o SubSeqOf(ORLexemes, S, 1)) :
          n \in ORPadCounts, S \in SUBSET (1..Len(ORLexemes))}

\* Objective inputs: a subset of collection, exfiltration, impact,
\* credential-access and lateral-movement techniques
SOLexemes ==
  << Tech("T1560"), Tech("T1041"), Tech("T1486"), SubTech("T1003", "001"), Tech("T1021") >>
SOInputs ==
  {NaN, Str(<<Word("n/a")>>), Str(<<Tech("T9999")>>), Str(<<Tech("T1059"), Word("only")>>)}
  \cup {Str(SubSeqOf(SOLexemes, S, 1)) : S \in SUBSET (1..Len(SOLexemes))}

(***************************************************************************)
(* The scoring layer as a state machine: from the idle state, one call of  *)
(* one scoring function on one input.                                      *)
(***************************************************************************)
NoRow == [apt |-> "", seed |-> NaN, cands |-> <<>>]

Init ==
  /\ pc = "idle"
  /\ sequence = NaN
  /\ seed_seq = NaN
  /\ apt_group = ""
  /\ result = <<>>
  /\ raised = ""
  /\ row = NoRow
  /\ df = <<>>
  /\ slot = 0

\* a call f(seq) / f(seq, apt) / f(seed, cand, apt) that returned `out`
Called(name, seed, seq, apt, out) ==
  /\ pc' = name
  /\ seed_seq' = seed
  /\ sequence' = seq
  /\ apt_group' = apt
  /\ result' = IF out.exc = "" THEN <<out.val>> ELSE <<>>
  /\ raised' = out.exc
  /\ UNCHANGED <<row, df, slot>>

CallScoreLogicalCoherence ==
  /\ pc = "idle"
  /\ \E seq \in LCInputs :
        Called("score_logical_coherence", NaN, seq, "", score_logical_coherence(seq))

CallEvaluateLogicalCoherence ==
  /\ pc = "idle"
  /\ \E seq \in LCInputs :
        Called("evaluate_logical_coherence", NaN, seq, "",
           Return(evaluate_logical_coherence(seq)))

CallScoreOperationalRealism ==
  /\ pc = "idle"
  /\ \E seq \in ORInputs, apt \in AptNames :
        Called("score_operational_realism", NaN, seq, apt,
           Return(score_operational_realism(seq, apt)))

CallEvaluateOperationalRealism ==
  /\ pc = "idle"
  /\ \E seq \in ORInputs, apt \in AptNames :
        Called("evaluate_operational_realism", NaN, seq, apt,
           Return(evaluate_operational_realism(seq, apt)))

CallDetermineSameObjective ==
  /\ pc = "idle"
  /\ \E seed \in SOInputs, cand \in SOInputs, apt \in AptNames :
        Called("determine_same_objective", seed, cand, apt,
           Return(determine_same_objective(seed, cand, apt)))

CallEvaluateSameObjective ==
  /\ pc = "idle"
  /\ \E seed \in SOInputs, cand \in SOInputs, apt \in AptNames :
        Called("evaluate_same_objective", seed, cand, apt,
           Return(evaluate_same_objective(seed, cand, apt)))

NextLC == CallScoreLogicalCoherence \/ CallEvaluateLogicalCoherence
NextOR == CallScoreOperationalRealism \/ CallEvaluateOperationalRealism
NextSO == CallDetermineSameObjective \/ CallEvaluateSameObjective

SpecLC == Init /\ [][NextLC]_vars
SpecOR == Init /\ [][NextOR]_vars
SpecSO == Init /\ [][NextSO]_vars

(***************************************************************************)
(* Record Evaluator: the per-row loop of score_all_variants (V2) and of    *)
(* evaluate_candidates (V1) over the candidate slots C1..C6.               *)
(***************************************************************************)
\* `for i in range(1, 7)`: the slot index is the loop's i
NumSlots == 6

\* an annotation cell: absent (None), or holding a value
None == <<>>
Cell(v) == <<v>>
Absent == [LC |-> None, OR |-> None, SO |-> None]
\* what the annotation columns of the input table may already hold
Stale == [LC |-> Cell(3), OR |-> Cell(3), SO |-> Cell("No")]

\* mutant: only the missing candidate is skipped, not the empty string
candidate_absent_isna(cand_seq) == cand_seq.isna

\* `if pd.isna(cand_seq) or cand_seq == ''`
candidate_absent(cand_seq) == cand_seq.isna \/ cand_seq.text = <<>>

RowFields ==
  { NaN, Str(<<>>), Str(<<Word("n/a")>>),
    Str(<<Tech("T1566"), Tech("T1059"), Tech("T1071")>>) }
RowSeeds == { NaN, Str(<<Tech("T1566"), Tech("T1560")>>) }
Rows ==
  [apt : {"APT28"}, seed : RowSeeds, cands : [1..NumSlots -> RowFields]]

\* `for idx, row in df.iterrows()`: the next row is read
ReadRow(name) ==
  /\ pc = "idle"
  /\ \E r \in Rows, old \in {Absent, Stale} :
       /\ row' = r
       /\ df' = [k \in 1..NumSlots |-> old]
  /\ slot' = 1
  /\ pc' = name
  /\ UNCHANGED <<sequence, seed_seq, apt_group, result, raised>>

\* one iteration of the slot loop, given the three scores of the candidate
Annotate(name, lc, or_score, so) ==
  /\ pc = name
  /\ slot <= NumSlots
  /\ IF candidate_absent(row.cands[slot])
     THEN /\ df' = [df EXCEPT ![slot] = Absent]
          /\ slot' = slot + 1
          /\ UNCHANGED <<pc, raised>>
     ELSE IF lc.exc # ""
     THEN /\ raised' = lc.exc
          /\ pc' = "aborted"
          /\ UNCHANGED <<df, slot>>
     ELSE /\ df' = [df EXCEPT ![slot] = [LC |-> Cell(lc.val), OR |-> Cell(or_score),
                                      SO |-> Cell(so)]]
          /\ slot' = slot + 1
          /\ UNCHANGED <<pc, raised>>
  /\ UNCHANGED <<sequence, seed_seq, apt_group, result, row>>

ScoreAllVariantsRow == ReadRow("score_all_variants")

ScoreSlot ==
  /\ pc = "score_all_variants"
  /\ slot <= NumSlots
  /\ Annotate("score_all_variants",
              score_logical_coherence(row.cands[slot]),
              score_operational_realism(row.cands[slot], row.apt),
              determine_same_objective(row.seed, row.cands[slot], row.apt))

EvaluateCandidatesRow == ReadRow("evaluate_candidates")

EvaluateSlot ==
  /\ pc = "evaluate_candidates"
  /\ slot <= NumSlots
  /\ Annotate("evaluate_candidates",
              Return(evaluate_logical_coherence(row.cands[slot])),
              evaluate_operational_realism(row.cands[slot], row.apt),
              evaluate_same_objective(row.seed, row.cands[slot], row.apt))

NextRow == ScoreAllVariantsRow \/ ScoreSlot \/ EvaluateCandidatesRow \/ EvaluateSlot

SpecRow == Init /\ [][NextRow]_vars

\* the scoring layer: every scoring function of both scripts
Next == NextLC \/ NextOR \/ NextSO

Spec == Init /\ [][Next]_vars

(***************************************************************************)
(* Properties.                                                             *)
(***************************************************************************)
\* the techniques and the resolved tactics of the field a V2 call was given
Techs(seq) == extract_techniques(seq)
Tactics(seq) == get_tactic_sequence(extract_techniques(seq))

\* no consecutive pair of resolved tactics steps back in the kill chain
NoDecreasingPair(seq) ==
  \A k \in 1..(Len(Tactics(seq)) - 1) :
    TACTIC_ORDER[Tactics(seq)[k]] <= TACTIC_ORDER[Tactics(seq)[k + 1]]

EarlyStage == {"initial-access", "reconnaissance"}

\* C1 as stated: every input whose resolved tactics have no decreasing
\* consecutive pair is scored 10 by score_logical_coherence.
C1_AnyOrderedSequenceScoresTen ==
  (pc = "score_logical_coherence" /\ NoDecreasingPair(sequence))
    => result = <<10>>

\* C1 (amended): an input of at least 3 techniques, at least 2 of them
\* resolved, whose resolved tactics have no decreasing consecutive pair, and
\* which has at most 6 techniques or an early-stage tactic among its first
\* seven resolved tactics, is scored 10 by score_logical_coherence.
C1_OrderedSequenceScoresTen ==
  ( /\ pc = "score_logical_coherence"
    /\ NoDecreasingPair(sequence)
    /\ Len(Techs(sequence)) >= 3
    /\ Len(Tactics(sequence)) >= 2
    /\ \/ Len(Techs(sequence)) <= 6
       \/ \E k \in 1..Len(Tactics(sequence)) : k <= 7 /\ Tactics(sequence)[k] \in EarlyStage )
    => result = <<10>>

\* the scenario "T1566 T1059 T1547 T1071" is scored 10
C1_Witness ==
  /\ pc = "score_logical_coherence"
  /\ sequence = Str(<<Tech("T1566"), Tech("T1059"), Tech("T1547"), Tech("T1071")>>)
  /\ result = <<10>>

MajorBackwardPair(seq) ==
  /\ Len(Techs(seq)) = 2
  /\ Tactics(seq) = <<"command-and-control", "initial-access">>

\* the same for the table of evaluate_apt_variants.py
MajorBackwardPairV1(seq) ==
  /\ Len(Techs(seq)) = 2
  /\ [k \in 1..2 |-> get_tactic_for_technique(Techs(seq)[k])]
       = <<"command-and-control", "initial-access">>

\* C3 as stated: score_logical_coherence scores a two-technique sequence
\* command-and-control, initial-access at most 3.
C3_BackwardPairAtMostThree ==
  (pc = "score_logical_coherence" /\ MajorBackwardPair(sequence))
    => result[1] <= 3

\* C3 (amended): score_logical_coherence scores such a sequence 5, the score
\* of a sequence too short to evaluate; evaluate_logical_coherence scores it
\* at most 3.
C3_BackwardPairTooShort ==
  /\ (pc = "score_logical_coherence" /\ MajorBackwardPair(sequence))
       => result = <<5>>
  /\ (pc = "evaluate_logical_coherence" /\ MajorBackwardPairV1(sequence))
       => result[1] <= 3

\* the scenario "T1071 T1566" is scored 5 by score_logical_coherence
C3_Witness ==
  /\ pc = "score_logical_coherence"
  /\ sequence = Str(<<Tech("T1071"), Tech("T1566")>>)
  /\ result = <<5>>

\* C4: the coherence score and the realism score of both scripts are
\* integers from 1 to 10, for every input sequence and APT name.
C4_ScoresInRange ==
  pc \in {"score_logical_coherence", "evaluate_logical_coherence",
          "score_operational_realism", "evaluate_operational_realism"}
    => /\ Len(result) = 1
       /\ result[1] \in 1..10

\* a realism call whose adjustments add up to more than 10 returned 10
C4_Witness ==
  /\ pc = "score_operational_realism"
  /\ Techs(sequence) # <<>>
  /\ 8 + length_adjustment(Len(Techs(sequence)))
       + essential_adjustment(essential_count(Range(Tactics(sequence))))
       + objective_alignment(Range(Tactics(sequence)), known_objectives(apt_group)) > 10
  /\ result = <<10>>

SameObjectiveCalls == {"determine_same_objective", "evaluate_same_objective"}

\* C5: with the same non-empty string as seed and as candidate, the
\* Objective Classifier of either script answers Yes, whatever the APT name.
C5_SameSequenceYes ==
  ( /\ pc \in SameObjectiveCalls
    /\ seed_seq = sequence
    /\ ~sequence.isna
    /\ sequence.text # <<>> )
    => result = <<"Yes">>

\* a string without any technique, as seed and candidate, for an APT name
\* outside the table
C5_Witness ==
  /\ pc = "determine_same_objective"
  /\ seed_seq = sequence
  /\ sequence = Str(<<Word("n/a")>>)
  /\ apt_group = "Unknown_APT"
  /\ result = <<"Yes">>

\* C6: with a missing or empty-string candidate, the Objective Classifier of
\* either script answers No, whatever the seed and the APT name.
C6_EmptyCandidateNo ==
  ( /\ pc \in SameObjectiveCalls
    /\ (sequence.isna \/ sequence.text = <<>>) )
    => result = <<"No">>

\* an empty candidate against an empty seed
C6_Witness ==
  /\ pc \in SameObjectiveCalls
  /\ seed_seq = Str(<<>>)
  /\ sequence = Str(<<>>)
  /\ result = <<"No">>

\* the three essential tactic groups and the tactics outside them
EssentialTactics ==
  {"initial-access", "reconnaissance", "execution", "command-and-control", "persistence"}
OtherTactics(seq) == Range(Tactics(seq)) \ EssentialTactics

\* the sequences obtained from a technique list by replacing any of its
\* techniques of the essential groups by an unresolvable identifier or by a
\* persistence technique
EssentialSwaps == { Tech("T9999"), Tech("T1098") }
Variants(techniques) ==
  LET pos == {k \in 1..Len(techniques) : tactic_of(techniques[k]) \in EssentialTactics}
  IN  { [k \in 1..Len(techniques) |->
           IF k \in pos /\ f[k] # Word("keep") THEN f[k] ELSE techniques[k]] :
          f \in [pos -> EssentialSwaps \cup {Word("keep")}] }

\* C7: score_operational_realism never scores a sequence lower than a
\* sequence of the same technique count, for the same APT name, with the same
\* tactics outside the essential groups and no more essential groups.
C7_MonotoneInEssentialGroups ==
  (pc = "score_operational_realism" /\ ~sequence.isna)
    => LET techniques == Techs(sequence)
           others == OtherTactics(sequence)
           count == essential_count(Range(Tactics(sequence)))
       IN  \A v \in Variants(techniques) :
             LET tactics == Range(Tactics(Str(v)))
             IN  ( /\ Len(Techs(Str(v))) = Len(techniques)
                   /\ tactics \ EssentialTactics = others
                   /\ essential_count(tactics) <= count )
                   => score_operational_realism(Str(v), apt_group) <= result[1]

\* a sequence with the three groups scored above its variant without any
C7_Witness ==
  /\ pc = "score_operational_realism"
  /\ apt_group = "Turla"
  /\ sequence = Str(<<Tech("T1566"), Tech("T1059"), Tech("T1071")>>)
  /\ result = <<7>>
  /\ score_operational_realism(Str(<<Tech("T9999"), Tech("T9999"), Tech("T9999")>>),
                               apt_group) = 4

RowDone == pc \in {"score_all_variants", "evaluate_candidates"} /\ slot > NumSlots

Populated(a) == a.LC # None /\ a.OR # None /\ a.SO # None

\* C8 as stated: once a row is processed, the three annotations of a slot
\* are absent iff its candidate yields no technique sequence (missing, empty
\* string, or text without technique identifier); otherwise all three are
\* populated.
C8_AbsentIffNoSequence ==
  RowDone
    => \A k \in 1..NumSlots :
         IF extract_techniques(row.cands[k]) = <<>>
         THEN df[k] = Absent
         ELSE Populated(df[k])

\* C8 (amended): once a row is processed, the three annotations of a slot
\* are absent iff its candidate is missing or the empty string; otherwise,
\* for a text without technique identifier too, all three are populated.
C8_AbsentIffMissingOrEmpty ==
  RowDone
    => \A k \in 1..NumSlots :
         IF row.cands[k].isna \/ row.cands[k].text = <<>>
         THEN df[k] = Absent
         ELSE Populated(df[k])

\* a processed row of score_all_variants whose annotations were filled
\* before: slot 1 missing, slot 2 the empty string, slot 3 text without
\* identifier, slot 4 a technique sequence
C8_Witness ==
  /\ pc = "score_all_variants"
  /\ slot > NumSlots
  /\ row.cands[1] = NaN /\ df[1] = Absent
  /\ row.cands[2] = Str(<<>>) /\ df[2] = Absent
  /\ row.cands[3] = Str(<<Word("n/a")>>) /\ Populated(df[3])
  /\ Len(extract_techniques(row.cands[4])) = 3 /\ Populated(df[4])

\* C9: every scoring function of both scripts returns a value for every
\* sequence field and APT name; none ends in an exception.
C9_ScoringTotal ==
  pc # "idle"
    => /\ raised = ""
       /\ result # <<>>
       /\ pc \in SameObjectiveCalls => result[1] \in {"Yes", "No"}

\* at least 3 techniques of which exactly one resolves: no transition to
\* divide by, and score_logical_coherence returned 7
C9_Witness ==
  /\ pc = "score_logical_coherence"
  /\ Len(Techs(sequence)) >= 3
  /\ Len(Tactics(sequence)) = 1
  /\ raised = ""
  /\ result = <<7>>

ImpactOnly(tactics) ==
  "impact" \in tactics /\ "collection" \notin tactics /\ "exfiltration" \notin tactics

\* C10: for Wizard_Spider and a sequence with impact but neither collection
\* nor exfiltration, the realism score is the clamp of the base score plus
\* the length and essential-group adjustments plus the APT's impact rewards
\* (2 in score_operational_realism, none in evaluate_operational_realism):
\* no -1 for impact without collection/exfiltration.
C10_WizardSpiderExempt ==
  /\ ( /\ pc = "score_operational_realism"
       /\ apt_group = "Wizard_Spider"
       /\ ImpactOnly(Range(Tactics(sequence))) )
       => result[1] = Max(1, Min(10,
            8 + length_adjustment(Len(Techs(sequence)))
              + essential_adjustment(essential_count(Range(Tactics(sequence))))
              + 2))
  /\ ( /\ pc = "evaluate_operational_realism"
       /\ apt_group = "Wizard_Spider"
       /\ ImpactOnly({get_tactic_for_technique(Techs(sequence)[k]) :
                        k \in 1..Len(Techs(sequence))}) )
       => result[1] = Max(1, Min(10,
            7 + length_adjustment_v1(Len(Techs(sequence)))
              + essential_adjustment_v1(essential_present(
                  {get_tactic_for_technique(Techs(sequence)[k]) :
                     k \in 1..Len(Techs(sequence))}))))

\* a single impact technique for Wizard_Spider: 8 - 2 - 2 + 2
C10_Witness ==
  /\ pc = "score_operational_realism"
  /\ apt_group = "Wizard_Spider"
  /\ sequence = Str(<<Tech("T1486")>>)
  /\ result = <<6>>

\* the tactic sets the two classifiers see
TacticSet(seq) == Range(Tactics(seq))
TacticSetV1(seq) ==
  {get_tactic_for_technique(Techs(seq)[k]) : k \in 1..Len(Techs(seq))}

\* a candidate the classifiers look into: neither missing nor the empty string
Present(field) == ~field.isna /\ field.text # <<>>

\* C11: when the objective sets the classifier infers from seed and
\* candidate intersect, it answers Yes for every APT name; in particular a
\* seed with a collection tactic and a candidate with an exfiltration tactic
\* are both espionage and get Yes.
C11_OverlapYes ==
  /\ ( /\ pc = "determine_same_objective"
       /\ Present(sequence)
       /\ objectives_or_known(infer_objectives(TacticSet(seed_seq)), apt_group)
            \cap objectives_or_known(infer_objectives(TacticSet(sequence)), apt_group) # {} )
       => result = <<"Yes">>
  /\ ( /\ pc = "evaluate_same_objective"
       /\ Present(sequence)
       /\ infer_objective_from_sequence(seed_seq)
            \cap infer_objective_from_sequence(sequence) # {} )
       => result = <<"Yes">>
  /\ ( /\ pc = "determine_same_objective"
       /\ "collection" \in TacticSet(seed_seq)
       /\ "exfiltration" \in TacticSet(sequence) )
       => result = <<"Yes">>
  /\ ( /\ pc = "evaluate_same_objective"
       /\ "collection" \in TacticSetV1(seed_seq)
       /\ "exfiltration" \in TacticSetV1(sequence) )
       => result = <<"Yes">>

\* seed "T1560", candidate "T1041", for an APT without espionage among its
\* known objectives
C11_Witness ==
  /\ pc = "determine_same_objective"
  /\ seed_seq = Str(<<Tech("T1560")>>)
  /\ sequence = Str(<<Tech("T1041")>>)
  /\ apt_group = "Wizard_Spider"
  /\ result = <<"Yes">>

\* C12 as stated: in determine_same_objective, when the objective sets of
\* seed and candidate do not intersect but each intersects the APT's known
\* objectives, the answer is Yes.
C12_BothAlignedWithAptYes ==
  ( /\ pc = "determine_same_objective"
    /\ Present(sequence)
    /\ LET seed_obj == objectives_or_known(infer_objectives(TacticSet(seed_seq)), apt_group)
           cand_obj == objectives_or_known(infer_objectives(TacticSet(sequence)), apt_group)
       IN  /\ seed_obj \cap cand_obj = {}
           /\ seed_obj \cap known_objectives(apt_group) # {}
           /\ cand_obj \cap known_objectives(apt_group) # {} )
    => result = <<"Yes">>

\* the kill-chain positions of the resolved tactics, and the backward steps
Positions(seq) == [k \in 1..Len(Tactics(seq)) |-> TACTIC_ORDER[Tactics(seq)[k]]]
BackwardSteps(seq, more_than) ==
  {k \in 1..(Len(Positions(seq)) - 1) :
     Positions(seq)[k] - Positions(seq)[k + 1] > more_than}

\* the score a band leads to, once bonus and penalty are applied
AfterBonusAndPenalty(band, seq) == bonus_and_penalty(band, Techs(seq), Tactics(seq))

\* C13 as stated: in score_logical_coherence every decreasing consecutive
\* pair counts as a violation, so a sequence of at least 3 techniques with a
\* decreasing pair is never in the band of 0 violations (10 before bonus and
\* penalty): its score is what a band from 1 to 9 leads to.
C13_AnyDecreaseLeavesTopBand ==
  ( /\ pc = "score_logical_coherence"
    /\ Len(Techs(sequence)) >= 3
    /\ BackwardSteps(sequence, 0) # {} )
    => \E band \in 1..9 : result = <<AfterBonusAndPenalty(band, sequence)>>

\* C13 (amended): a consecutive pair counts as a violation when the position
\* decreases by more than 2; a sequence of at least 3 techniques with such a
\* pair is never in the band of 0 violations.
C13_DecreaseOverTwoLeavesTopBand ==
  ( /\ pc = "score_logical_coherence"
    /\ Len(Techs(sequence)) >= 3
    /\ BackwardSteps(sequence, 2) # {} )
    => \E band \in 1..9 : result = <<AfterBonusAndPenalty(band, sequence)>>

\* privilege-escalation (6) back to initial-access (3): one violation in two
\* transitions, band 5
C13_Witness ==
  /\ pc = "score_logical_coherence"
  /\ sequence = Str(<<SubTech("T1547", "001"), Tech("T1566"), Tech("T1566")>>)
  /\ result = <<5>>

\* the band of a sequence with at least two resolved tactics
BandOf(seq) ==
  violation_band(count_violations(Positions(seq)), count_major_violations(Positions(seq)),
                 Len(Positions(seq)) - 1).val

HasExecution(seq) == "execution" \in TacticSet(seq)
HasControl(seq) == TacticSet(seq) \cap {"command-and-control", "persistence"} # {}

\* C14 as stated: score_logical_coherence takes 2 off only when no
\* early-stage tactic appears anywhere among the resolved tactics; with an
\* early-stage tactic at any position the band is never reduced, and it is
\* raised by 1 (up to 10) when execution and command-and-control or
\* persistence are present too.
C14_EarlyStageAnywhereNoPenalty ==
  ( /\ pc = "score_logical_coherence"
    /\ Len(Techs(sequence)) >= 3
    /\ Len(Tactics(sequence)) >= 2
    /\ TacticSet(sequence) \cap EarlyStage # {} )
    => result = << IF HasExecution(sequence) /\ HasControl(sequence)
                   THEN Min(BandOf(sequence) + 1, 10)
                   ELSE BandOf(sequence) >>

\* the band that the number of major violations fixes
MajorBand(m) == IF m >= 3 THEN 2 ELSE IF m = 2 THEN 3 ELSE 4

\* C15: in score_logical_coherence, for a sequence of at least 3 techniques
\* with at least one backward step of more than 5 positions, the band is
\* fixed by the number of such steps alone (1 -> 4, 2 -> 3, 3 or more -> 2),
\* whatever the violation ratio, so the score after bonus and penalty is at
\* most 5.
C15_MajorViolationFixesBand ==
  ( /\ pc = "score_logical_coherence"
    /\ Len(Techs(sequence)) >= 3
    /\ BackwardSteps(sequence, 5) # {} )
    => /\ result = <<AfterBonusAndPenalty(MajorBand(Cardinality(BackwardSteps(sequence, 5))),
                                          sequence)>>
       /\ result[1] <= 5
C15_Witness ==
  /\ pc = "score_logical_coherence"
  /\ sequence = Str(Repeat(<<Tech("T1486"), Tech("T1566")>>, 3))
  /\ Cardinality(BackwardSteps(sequence, 5)) = 3
  /\ result = <<2>>

\* seq without the identifiers that the table `keys` does not resolve
Strip(seq, keys) ==
  Str(SelectSeq(seq.text, LAMBDA lexeme : ~lexeme.match \/ lexeme.base \in keys))

\* V1: the order values of the known tactics of seq
PositionsV1(seq) ==
  LET known == SelectSeq([k \in 1..Len(Techs(seq)) |-> get_tactic_for_technique(Techs(seq)[k])],
                         LAMBDA t : t # "unknown")
  IN  [k \in 1..Len(known) |-> TACTIC_ORDER_V1[known[k]]]

\* C16: identifiers absent from the table never contribute to the violation
\* counting of either coherence scorer: the violations (and, in V2, the
\* major violations) counted for a sequence are those counted for the same
\* sequence without its unresolvable identifiers, and the score is the same
\* wherever it depends on the counted tactics only (V1: some identifier
\* resolves; V2: at least 3 identifiers remain and the sequence stays on the
\* same side of the more-than-6 length test).
C16_UnknownNeverCounted ==
  /\ (pc = "score_logical_coherence" /\ ~sequence.isna) =>
       LET stripped == Strip(sequence, TechniqueKeys)
       IN  /\ count_violations(Positions(sequence)) = count_violations(Positions(stripped))
           /\ count_major_violations(Positions(sequence))
                = count_major_violations(Positions(stripped))
           /\ ( /\ Len(Techs(stripped)) >= 3
                /\ (Len(Techs(sequence)) > 6) = (Len(Techs(stripped)) > 6) )
                => /\ raised = score_logical_coherence(stripped).exc
                   /\ result = <<score_logical_coherence(stripped).val>>
  /\ (pc = "evaluate_logical_coherence" /\ ~sequence.isna) =>
       LET stripped == Strip(sequence, TechniqueKeysV1)
       IN  /\ weighted_violations(PositionsV1(sequence))
                = weighted_violations(PositionsV1(stripped))
           /\ Techs(stripped) # <<>> => result = <<evaluate_logical_coherence(stripped)>>
C16_Witness ==
  /\ pc = "score_logical_coherence"
  /\ sequence = Str(<<Tech("T1059"), Tech("T1071"), Tech("T9999"), Tech("T1566")>>)
  /\ Strip(sequence, TechniqueKeys) = Str(<<Tech("T1059"), Tech("T1071"), Tech("T1566")>>)
  /\ count_violations(Positions(sequence)) = 1
  /\ result = <<5>>

\* 'Yes' when the two objective sets overlap or meet one compatible group
SameOrCompatible(seed_obj, cand_obj) ==
  IF \/ seed_obj \cap cand_obj # {}
     \/ \E group \in compatible : seed_obj \cap group # {} /\ cand_obj \cap group # {}
  THEN "Yes" ELSE "No"

\* the APT's objectives in the table; espionage for a name it does not hold
AptObjectives(apt) == IF apt \in AptKeys THEN APT_OBJECTIVES[apt] ELSE {"espionage"}

\* what the sequence stands for when the classifier compares it
ObjectivesFor(seq, apt) ==
  IF infer_objectives(TacticSet(seq)) = {} THEN AptObjectives(apt)
  ELSE infer_objectives(TacticSet(seq))

\* C17: in determine_same_objective a seed or candidate from which no
\* objective is inferred is compared as exactly the APT's known objective
\* set (espionage only for an APT name the table does not hold), not as
\* espionage for every APT; for Wizard_Spider an objective-less seed
\* against a collection-only candidate gives 'No'.
C17_ObjectiveLessTakesAptObjectives ==
  /\ ( /\ pc = "determine_same_objective"
       /\ Present(sequence)
       /\ \/ infer_objectives(TacticSet(seed_seq)) = {}
          \/ infer_objectives(TacticSet(sequence)) = {} )
       => result = <<SameOrCompatible(ObjectivesFor(seed_seq, apt_group),
                                      ObjectivesFor(sequence, apt_group))>>
  /\ ( /\ pc = "determine_same_objective"
       /\ apt_group = "Wizard_Spider"
       /\ infer_objectives(TacticSet(seed_seq)) = {}
       /\ TacticSet(sequence) = {"collection"} )
       => result = <<"No">>
C17_Witness ==
  /\ pc = "determine_same_objective"
  /\ apt_group = "Wizard_Spider"
  /\ seed_seq = Str(<<Tech("T9999")>>)
  /\ sequence = Str(<<Tech("T1560")>>)
  /\ result = <<"No">>

\* C18: for non-empty seed and candidate strings and every APT name, both
\* classifiers give the same answer with the two sequences swapped.
C18_SwapSymmetric ==
  /\ (pc = "determine_same_objective" /\ Present(seed_seq) /\ Present(sequence))
       => result = <<determine_same_objective(sequence, seed_seq, apt_group)>>
  /\ (pc = "evaluate_same_objective" /\ Present(seed_seq) /\ Present(sequence))
       => result = <<evaluate_same_objective(sequence, seed_seq, apt_group)>>
C18_Witness ==
  /\ pc = "determine_same_objective"
  /\ apt_group = "Sandworm_Team"
  /\ seed_seq = Str(<<Tech("T9999")>>)
  /\ sequence = Str(<<Tech("T1486")>>)
  /\ result = <<"Yes">>
  /\ determine_same_objective(sequence, seed_seq, apt_group) = "Yes"

====
